---- MODULE Spec2Model ----
(***************************************************************************)
(* Model of the Nextcloud WebDAV provider of the storage gateway           *)
(* (waterbutler/providers/nextcloud/provider.py).                          *)
(*                                                                         *)
(* A provider instance is stateless; the state of the system is the        *)
(* content of the WebDAV backend it talks to.  Every provider operation is *)
(* one action.  An action runs the whole handler: it threads a context     *)
(* (backend content, request/release trace, number of responses still      *)
(* open) through the requests the handler issues, and records the          *)
(* handler's arguments, its result and its trace.                          *)
(***************************************************************************)
EXTENDS Integers, Sequences, FiniteSets, TLC

VARIABLES
    provider,   \* the provider instance: NAME, settings folder, credentials
    fs,         \* backend content: set of nodes [parts, kind, size]
    pre,        \* backend content before the last operation
    op,         \* the last operation and its arguments
    res,        \* its outcome: [err, val]
    trace,      \* requests and releases of the last operation, in order
    open        \* responses the last operation obtained and did not release

vars == <<provider, fs, pre, op, res, trace, open>>

----------------------------------------------------------------------------
(* Bounds of the model *)

MaxRawLen == 4      \* longest path string, in tokens
MaxSuffix == 1      \* largest counter increment_name is followed to
MaxNodes == 2       \* most objects stored on the backend
MaxVersions == 2    \* most historical versions the backend keeps of a file

BaseNames == {"a", "b"}
Sizes == {5, 10}

----------------------------------------------------------------------------
(* Path strings.  A string is a sequence of tokens: "/" or a maximal run   *)
(* of non-slash characters (a name).                                       *)

Slash == "/"
Tokens == BaseNames \cup {Slash}

RawPaths ==
    {s \in UNION {[1..n -> Tokens] : n \in 0..MaxRawLen} :
        \A i \in 1..(Len(s) - 1) : ~(s[i] # Slash /\ s[i + 1] # Slash)}

Name(b, k) == [base |-> b, n |-> k]

RECURSIVE SplitNames(_)
\* the names of a path string, in order
SplitNames(s) ==
    IF s = <<>> THEN <<>>
    ELSE IF Head(s) = Slash THEN SplitNames(Tail(s))
    ELSE <<Name(Head(s), 0)>> \o SplitNames(Tail(s))

EndsWithSlash(s) == Len(s) > 0 /\ s[Len(s)] = Slash

\* a string WaterButlerPath accepts: absolute, no empty segment
ValidRaw(s) ==
    /\ Len(s) > 0
    /\ s[1] = Slash
    /\ \A i \in 1..(Len(s) - 1) : ~(s[i] = Slash /\ s[i + 1] = Slash)

NoId == "none"

\* WaterButlerPath(path, prepend=folder)
WaterButlerPath(s, prepend) ==
    [parts |-> SplitNames(s),
     is_dir |-> EndsWithSlash(s),
     prepend |-> SplitNames(prepend),
     id |-> NoId]

FullParts(p) == p.prepend \o p.parts
Kind(p) == IF p.is_dir THEN "folder" ELSE "file"
IsRoot(p) == p.parts = <<>>
Front(s) == SubSeq(s, 1, Len(s) - 1)
Parent(p) == [p EXCEPT !.parts = Front(p.parts), !.is_dir = TRUE, !.id = NoId]
\* materialized path: the display path below the provider's folder
Materialized(p) == [parts |-> p.parts, is_dir |-> p.is_dir]

----------------------------------------------------------------------------
(* Provider instances *)

FolderSettings == {<<Slash>>, <<Slash, "r">>}
Credentials == {"alice", "bob"}
ProviderNames == {"nextcloud", "nextcloudinstitutions"}

\* NextcloudProvider.__init__: the folder setting ends with a slash
NewProvider(name, credentials, folderSetting) ==
    [NAME |-> name,
     credentials |-> credentials,
     settings |-> folderSetting,
     folder |-> IF EndsWithSlash(folderSetting) THEN folderSetting
                ELSE Append(folderSetting, Slash)]

Providers ==
    {NewProvider(n, c, f) : n \in ProviderNames, c \in Credentials, f \in FolderSettings}
\* a provider of another backend, configured the same way
OtherProviders ==
    {[NewProvider("owncloud", c, f) EXCEPT !.folder = f] : c \in Credentials, f \in FolderSettings}

----------------------------------------------------------------------------
(* The WebDAV backend.  A node is [parts, kind, size]: parts is the        *)
(* absolute name chain, size stands for the content of a file.  The        *)
(* backend root (the empty chain) is a folder that always exists.  The     *)
(* backend resolves a request by name chain: a trailing slash in the       *)
(* request url does not change which object answers.                       *)

IsPrefix(a, b) == Len(a) <= Len(b) /\ SubSeq(b, 1, Len(a)) = a
RootNode == [parts |-> <<>>, kind |-> "folder", size |-> 0]
Exists(f, parts) == parts = <<>> \/ \E n \in f : n.parts = parts
NodeAt(f, parts) == IF parts = <<>> THEN RootNode ELSE CHOOSE n \in f : n.parts = parts
IsFolderAt(f, parts) == Exists(f, parts) /\ NodeAt(f, parts).kind = "folder"
IsFileAt(f, parts) == Exists(f, parts) /\ NodeAt(f, parts).kind = "file"
Children(f, parts) == {n \in f : Len(n.parts) = Len(parts) + 1 /\ IsPrefix(parts, n.parts)}
Subtree(f, parts) == {n \in f : IsPrefix(parts, n.parts)}
Rebase(n, src, dst) ==
    [n EXCEPT !.parts = dst \o SubSeq(n.parts, Len(src) + 1, Len(n.parts))]

RECURSIVE SetToSeq(_)
SetToSeq(S) ==
    IF S = {} THEN <<>>
    ELSE LET x == CHOOSE y \in S : TRUE IN <<x>> \o SetToSeq(S \ {x})

\* body of a multistatus answer: the object itself, then its children
Listing(f, parts) == [notfound |-> FALSE,
                      entries |-> <<NodeAt(f, parts)>> \o SetToSeq(Children(f, parts))]
NotFoundBody == [notfound |-> TRUE, entries |-> <<>>]
EmptyBody == [notfound |-> FALSE, entries |-> <<>>]

Answer(status, body, f) == [status |-> status, body |-> body, fs |-> f]

DavPropfind(f, parts) ==
    IF Exists(f, parts) THEN Answer(207, Listing(f, parts), f)
    ELSE Answer(404, NotFoundBody, f)

DavPut(f, parts, size) ==
    IF IsFileAt(f, parts)
    THEN Answer(204, EmptyBody, (f \ {NodeAt(f, parts)}) \cup {[parts |-> parts, kind |-> "file", size |-> size]})
    ELSE IF Exists(f, parts) THEN Answer(405, EmptyBody, f)
    ELSE IF IsFolderAt(f, Front(parts))
    THEN Answer(201, EmptyBody, f \cup {[parts |-> parts, kind |-> "file", size |-> size]})
    ELSE Answer(409, EmptyBody, f)

DavDelete(f, parts) ==
    IF parts = <<>> THEN Answer(403, EmptyBody, f)
    ELSE IF Exists(f, parts) THEN Answer(204, EmptyBody, f \ Subtree(f, parts))
    ELSE Answer(404, NotFoundBody, f)

DavMkcol(f, parts) ==
    IF Exists(f, parts) THEN Answer(405, EmptyBody, f)
    ELSE IF IsFolderAt(f, Front(parts))
    THEN Answer(201, EmptyBody, f \cup {[parts |-> parts, kind |-> "folder", size |-> 0]})
    ELSE Answer(409, EmptyBody, f)

\* MOVE/COPY with the default Overwrite: T.  201 = created, 204 = replaced
\* an existing destination.  A rejected request changes nothing.
DavMoveCopy(f, method, src, dst) ==
    IF ~Exists(f, src) THEN Answer(404, NotFoundBody, f)
    ELSE IF src = <<>> \/ dst = <<>> \/ IsPrefix(src, dst) THEN Answer(403, EmptyBody, f)
    ELSE IF IsPrefix(dst, src) \/ ~IsFolderAt(f, Front(dst)) THEN Answer(409, EmptyBody, f)
    ELSE LET moved == {Rebase(n, src, dst) : n \in Subtree(f, src)}
             kept == IF method = "MOVE" THEN f \ Subtree(f, src) ELSE f
         IN Answer(IF Exists(f, dst) THEN 204 ELSE 201, EmptyBody,
                   (kept \ Subtree(f, dst)) \cup moved)

\* the checksum api of the institutional server: hashes of a file
OcsChecksum(f, parts) ==
    IF IsFileAt(f, parts) THEN Answer(200, EmptyBody, f) ELSE Answer(404, NotFoundBody, f)

\* GET of an object: the content of a file
DavGet(f, parts) ==
    IF IsFileAt(f, parts)
    THEN Answer(200, [notfound |-> FALSE, entries |-> <<NodeAt(f, parts)>>], f)
    ELSE IF Exists(f, parts) THEN Answer(405, EmptyBody, f)
    ELSE Answer(404, NotFoundBody, f)

\* The historical versions of a file.  The backend names a version by its
\* modification time; a version store is the sequence of the versions in
\* the order the backend lists them, which WebDAV leaves to the backend.
VersionNode(t) == [parts |-> <<Name("v", t)>>, kind |-> "file", size |-> 0]
VersionStores ==
    {v \in UNION {[1..n -> 1..MaxVersions] : n \in 0..MaxVersions} :
        \A i, j \in 1..Len(v) : i # j => v[i] # v[j]}

\* PROPFIND of the versions collection of a file: the collection, then the
\* versions
DavVersions(f, parts, versions) ==
    IF IsFileAt(f, parts)
    THEN Answer(207, [notfound |-> FALSE,
                      entries |-> <<[parts |-> <<>>, kind |-> "folder", size |-> 0]>>
                                  \o [i \in 1..Len(versions) |-> VersionNode(versions[i])]], f)
    ELSE Answer(404, NotFoundBody, f)

\* GET of one version of a file
DavGetVersion(f, parts, versions, version) ==
    IF IsFileAt(f, parts) /\ \E i \in 1..Len(versions) : <<Name("v", versions[i])>> = version
    THEN Answer(200, [notfound |-> FALSE, entries |-> <<VersionNode(version[1].n)>>], f)
    ELSE Answer(404, NotFoundBody, f)

----------------------------------------------------------------------------
(* Requests.  A handler threads a context through its requests: the        *)
(* backend content, the trace, the number of responses it holds, the       *)
(* number of requests made, and the fault the backend shows (plan.at = the *)
(* request that is answered abnormally, 0 for none).                       *)

FaultKinds == {"error", "notfound_body", "empty"}
MaxRequests == 3
NoFault == [at |-> 0, kind |-> "none"]
Plans == {NoFault} \cup [at : 1..MaxRequests, kind : FaultKinds]
\* the faults that can show in a handler of at most k requests
PlansFor(k) == {plan \in Plans : plan.at <= k}

NewCtx(f, plan) ==
    [fs |-> f, trace |-> <<>>, open |-> 0, n |-> 0, plan |-> plan, versions |-> <<>>]
\* a request served by a backend that keeps these versions of the files
VersionsCtx(f, plan, versions) == [NewCtx(f, plan) EXCEPT !.versions = versions]

IsPropfind(method) == method \in {"PROPFIND", "PROPFIND versions"}

BackendAnswer(c, method, parts, size, dst) ==
    IF c.plan.at = c.n + 1 /\ c.plan.kind = "error"
    THEN Answer(500, EmptyBody, c.fs)
    ELSE IF c.plan.at = c.n + 1 /\ c.plan.kind = "notfound_body" /\ IsPropfind(method)
    THEN Answer(207, NotFoundBody, c.fs)
    ELSE IF c.plan.at = c.n + 1 /\ c.plan.kind = "empty" /\ IsPropfind(method)
    THEN Answer(204, EmptyBody, c.fs)
    ELSE IF method = "PROPFIND" THEN DavPropfind(c.fs, parts)
    ELSE IF method = "PUT" THEN DavPut(c.fs, parts, size)
    ELSE IF method = "DELETE" THEN DavDelete(c.fs, parts)
    ELSE IF method = "MKCOL" THEN DavMkcol(c.fs, parts)
    ELSE IF method = "GET" THEN OcsChecksum(c.fs, parts)
    ELSE IF method = "GET file" THEN DavGet(c.fs, parts)
    ELSE IF method = "GET version" THEN DavGetVersion(c.fs, parts, c.versions, dst)
    ELSE IF method = "PROPFIND versions" THEN DavVersions(c.fs, parts, c.versions)
    ELSE DavMoveCopy(c.fs, method, parts, dst)

Event(ev, method, parts, status, body) ==
    [ev |-> ev, method |-> method, parts |-> parts, status |-> status,
     notfound |-> body.notfound]

\* BaseProvider.make_request: a status outside expects is turned into the
\* throws error (the response is consumed there); otherwise the caller
\* holds the response.
Respond(c, method, parts, expects, throws, a) ==
    [ctx |-> [c EXCEPT !.fs = a.fs,
                       !.n = c.n + 1,
                       !.trace = Append(c.trace, Event("request", method, parts, a.status, a.body)),
                       !.open = IF a.status \in expects THEN c.open + 1 ELSE c.open],
     status |-> a.status,
     body |-> a.body,
     raised |-> IF a.status \in expects THEN "" ELSE throws]

make_request(c, method, parts, expects, throws, size, dst) ==
    Respond(c, method, parts, expects, throws, BackendAnswer(c, method, parts, size, dst))

\* response.release()
release(c) == [c EXCEPT !.open = c.open - 1,
                        !.trace = Append(c.trace, Event("release", "", <<>>, 0, EmptyBody))]

\* utils.parse_dav_response(provider, content, folder, skip_first): the
\* metadata entries of a multistatus body; NotFoundError for a not-found
\* document.
MetaOf(n, folder) == [kind |-> n.kind, href |-> n.parts, folder |-> SplitNames(folder),
                      size |-> n.size, extra |-> "none"]
parse_dav_response(body, folder, skip_first) ==
    IF body.notfound THEN [raised |-> "NotFoundError", items |-> <<>>]
    ELSE LET all == [i \in 1..Len(body.entries) |-> MetaOf(body.entries[i], folder)]
         IN [raised |-> "",
             items |-> IF skip_first /\ all # <<>> THEN Tail(all) ELSE all]

\* metadata.path / metadata.materialized_path: the href below the folder
MetaPath(m) == [parts |-> SubSeq(m.href, Len(m.folder) + 1, Len(m.href)),
                is_dir |-> m.kind = "folder"]

\* an error carries the http code it maps to (the backend status for the
\* errors make_request raises, 0 for an untyped error)
Raise(c, err, code) == [ctx |-> c, err |-> err, code |-> code, val |-> [none |-> TRUE]]
Return(c, val) == [ctx |-> c, err |-> "", code |-> 0, val |-> val]

----------------------------------------------------------------------------
(* Path validation.  A handler is written as a chain of steps, one per     *)
(* awaited call: each step receives what the call before it returned.      *)

\* validate_v1_path that does not compare the kinds
validate_v1_path_item_nokind(full_path, c, item) ==
    IF item.raised = "NotFoundError" THEN Raise(c, "NotFoundError", 404)
    ELSE Return(c, [path |-> full_path])

\* the parsed listing: lines 123-130
validate_v1_path_item(full_path, c, item) ==
    IF item.raised = "NotFoundError" THEN Raise(c, "NotFoundError", 404)
    ELSE IF item.items = <<>> THEN Raise(c, "IndexError", 0)
    ELSE IF Kind(full_path) # item.items[1].kind THEN Raise(c, "NotFoundError", 404)
    ELSE Return(c, [path |-> full_path])

\* the response: lines 118-124
validate_v1_path_response(full_path, response) ==
    IF response.raised # "" THEN Raise(response.ctx, response.raised, response.status)
    ELSE IF response.status = 404 THEN Raise(release(response.ctx), "NotFoundError", 404)
    ELSE validate_v1_path_item(full_path, release(response.ctx),
                               parse_dav_response(response.body, <<Slash>>, FALSE))

\* the request: lines 109-117
validate_v1_path_request(full_path, plan, f) ==
    validate_v1_path_response(full_path,
        make_request(NewCtx(f, plan), "PROPFIND", FullParts(full_path),
                     {200, 207, 404}, "MetadataError", 0, <<>>))

\* validate_v1_path that asks the backend about the root too
validate_v1_path_noroot(self, path, plan, f) ==
    IF ~ValidRaw(path) THEN Raise(NewCtx(f, plan), "InvalidPathError", 400)
    ELSE validate_v1_path_request(WaterButlerPath(path, self.folder), plan, f)

validate_v1_path(self, path, plan, f) ==
    IF ~ValidRaw(path) THEN Raise(NewCtx(f, plan), "InvalidPathError", 400)
    ELSE IF path = <<Slash>>
    THEN Return(NewCtx(f, plan), [path |-> WaterButlerPath(path, self.folder)])
    ELSE validate_v1_path_request(WaterButlerPath(path, self.folder), plan, f)

\* the parsed listing: lines 153-157
validate_path_item(full_path, c, item) ==
    IF item.raised = "NotFoundError" THEN Return(c, [path |-> full_path])
    ELSE Return(c, [path |-> full_path])

\* validate_path that raises on a 404 as validate_v1_path does
validate_path_response_strict(full_path, response) ==
    IF response.raised # "" THEN Raise(response.ctx, response.raised, response.status)
    ELSE IF response.status = 404 THEN Raise(release(response.ctx), "NotFoundError", 404)
    ELSE validate_path_item(full_path, release(response.ctx),
                            parse_dav_response(response.body, <<Slash>>, FALSE))

\* the response: lines 150-154
validate_path_response(full_path, response) ==
    IF response.raised # "" THEN Raise(response.ctx, response.raised, response.status)
    ELSE validate_path_item(full_path, release(response.ctx),
                            parse_dav_response(response.body, <<Slash>>, FALSE))

\* the request: lines 142-149
validate_path_request(full_path, plan, f) ==
    validate_path_response(full_path,
        make_request(NewCtx(f, plan), "PROPFIND", FullParts(full_path),
                     {200, 207, 404}, "MetadataError", 0, <<>>))

\* validate_path that forgets the provider's folder
validate_path_noprepend(self, path, plan, f) ==
    IF ~ValidRaw(path) THEN Raise(NewCtx(f, plan), "InvalidPathError", 400)
    ELSE IF path = <<Slash>>
    THEN Return(NewCtx(f, plan), [path |-> WaterButlerPath(path, <<Slash>>)])
    ELSE validate_path_request(WaterButlerPath(path, <<Slash>>), plan, f)

validate_path(self, path, plan, f) ==
    IF ~ValidRaw(path) THEN Raise(NewCtx(f, plan), "InvalidPathError", 400)
    ELSE IF path = <<Slash>>
    THEN Return(NewCtx(f, plan), [path |-> WaterButlerPath(path, self.folder)])
    ELSE validate_path_request(WaterButlerPath(path, self.folder), plan, f)

----------------------------------------------------------------------------
(* Metadata *)

RECURSIVE Checksums(_, _, _, _), ChecksumResponse(_, _, _, _)
\* the loop of _metadata_folder over the listed items: the institutional
\* provider asks the checksum api for the hashes of every file
Checksums(self, c, items, i) ==
    IF i > Len(items) THEN Return(c, [items |-> items])
    ELSE IF items[i].kind = "file" /\ self.NAME = "nextcloudinstitutions"
    THEN ChecksumResponse(self, items, i,
             make_request(c, "GET", items[i].href, {200, 404}, "MetadataError", 0, <<>>))
    ELSE Checksums(self, c, items, i + 1)

\* the checksum response: lines 299-304
ChecksumResponse(self, items, i, response) ==
    IF response.raised # "" THEN Raise(response.ctx, response.raised, response.status)
    ELSE Checksums(self, release(response.ctx),
                   IF response.status = 200 THEN [items EXCEPT ![i].extra = "hashes"]
                   ELSE items,
                   i + 1)

\* the parsed listing: lines 280-283.  When parse_dav_response raises,
\* release() is not reached.
_metadata_folder_items(self, c, parsed) ==
    IF parsed.raised # "" THEN Raise(c, parsed.raised, 404)
    ELSE Checksums(self, release(c), parsed.items, 1)

\* the response: lines 277-281
_metadata_folder_response(self, skip_first, response) ==
    IF response.raised # "" THEN Raise(response.ctx, response.raised, response.status)
    ELSE IF response.status = 207
    THEN _metadata_folder_items(self, response.ctx,
             parse_dav_response(response.body, self.folder, skip_first))
    ELSE Checksums(self, release(response.ctx), <<>>, 1)

_metadata_folder(self, c, path, skip_first) ==
    _metadata_folder_response(self, skip_first,
        make_request(c, "PROPFIND", FullParts(path), {204, 207}, "MetadataError", 0, <<>>))

\* items[0]
FirstItem(items) ==
    IF items.err # "" THEN items
    ELSE IF items.val.items = <<>> THEN Raise(items.ctx, "IndexError", 0)
    ELSE Return(items.ctx, [meta |-> items.val.items[1]])

_metadata_file(self, c, path) ==
    FirstItem(_metadata_folder(self, c, path, FALSE))

metadata(self, c, path) ==
    IF path.is_dir THEN _metadata_folder(self, c, path, TRUE)
    ELSE _metadata_file(self, c, path)

----------------------------------------------------------------------------
(* Upload *)

\* BaseProvider.exists: metadata, with not-found turned into False
ExistsResult(m) ==
    IF m.err = "NotFoundError" \/ (m.err = "MetadataError" /\ m.code = 404)
    THEN Return(m.ctx, [exists |-> FALSE])
    ELSE IF m.err # "" THEN m
    ELSE Return(m.ctx, [exists |-> TRUE])

exists(self, c, path) == ExistsResult(metadata(self, c, path))

\* WaterButlerPath.increment_name: 'b' -> 'b (1)' -> 'b (2)'
increment_name(path) ==
    [path EXCEPT !.parts[Len(path.parts)].n = @ + 1]

RECURSIVE NextFreeName(_, _, _), NextFreeNameResult(_, _, _)
NextFreeName(self, c, path) ==
    IF path.parts[Len(path.parts)].n >= MaxSuffix THEN Raise(c, "OutOfBound", 0)
    ELSE NextFreeNameResult(self, increment_name(path),
                            exists(self, c, increment_name(path)))

NextFreeNameResult(self, test_path, e) ==
    IF e.err # "" THEN e
    ELSE IF e.val.exists THEN NextFreeName(self, e.ctx, test_path)
    ELSE Return(e.ctx, [path |-> test_path])

\* BaseProvider.handle_name_conflict: under 'keep', the first name of the
\* series 'b', 'b (1)', 'b (2)' that is not in use
HandleNameConflictResult(self, path, conflict, e) ==
    IF e.err # "" THEN e
    ELSE IF ~e.val.exists \/ conflict = "replace" THEN Return(e.ctx, [path |-> path])
    ELSE IF conflict = "warn" THEN Raise(e.ctx, "NamingConflict", 409)
    ELSE NextFreeName(self, e.ctx, path)

handle_name_conflict(self, c, path, conflict) ==
    HandleNameConflictResult(self, path, conflict, exists(self, c, path))

\* upload that takes 204 for the sign of a new object
upload_result_created_on_204(status, meta) ==
    IF meta.err # "" THEN meta
    ELSE Return(meta.ctx, [meta |-> meta.val.meta, created |-> status = 204])

\* the metadata of the written path: lines 226-227
upload_result(status, meta) ==
    IF meta.err # "" THEN meta
    ELSE Return(meta.ctx, [meta |-> meta.val.meta, created |-> status = 201])

\* upload that queries the metadata whatever the PUT was answered
upload_response_unconfirmed(self, path, response) ==
    upload_result(response.status, metadata(self, release(response.ctx), path))

\* the response of the PUT: lines 225-226
upload_response(self, path, response) ==
    IF response.raised # "" THEN Raise(response.ctx, response.raised, response.status)
    ELSE upload_result(response.status, metadata(self, release(response.ctx), path))

\* the PUT: lines 215-224
upload_put(self, stream, path, c) ==
    upload_response(self, path,
        make_request(c, "PUT", FullParts(path), {201, 204}, "UploadError", stream, <<>>))

\* the renamed path, its identifier removed: lines 212-213
upload_renamed(self, stream, renamed) ==
    IF renamed.err # "" THEN renamed
    ELSE upload_put(self, stream, [renamed.val.path EXCEPT !.id = NoId], renamed.ctx)

upload(self, stream, path, conflict, plan, f) ==
    IF path.id # NoId /\ conflict = "keep"
    THEN upload_renamed(self, stream,
             handle_name_conflict(self, NewCtx(f, plan), path, conflict))
    ELSE upload_put(self, stream, path, NewCtx(f, plan))

----------------------------------------------------------------------------
(* Delete, create_folder, copy and move *)

\* the response of the DELETE: lines 243-244
delete_response(delete_resp) ==
    IF delete_resp.raised # ""
    THEN Raise(delete_resp.ctx, delete_resp.raised, delete_resp.status)
    ELSE Return(release(delete_resp.ctx), [none |-> TRUE])

\* delete that takes 404 for done
delete_ignoring_missing(self, path, plan, f) ==
    delete_response(
        make_request(NewCtx(f, plan), "DELETE", FullParts(path), {204, 404}, "DeleteError",
                     0, <<>>))

delete(self, path, plan, f) ==
    delete_response(
        make_request(NewCtx(f, plan), "DELETE", FullParts(path), {204}, "DeleteError", 0, <<>>))

\* [m for m in meta if <m's path> == <path's materialized path>]
Matching(items, path) ==
    SelectSeq(items, LAMBDA m : MetaPath(m) = Materialized(path))

\* [...][0]
FirstMatch(c, found) ==
    IF found = <<>> THEN Raise(c, "IndexError", 0)
    ELSE Return(c, [meta |-> found[1]])

\* the listing of the parent: line 417
create_folder_result(path, meta) ==
    IF meta.err # "" THEN meta
    ELSE FirstMatch(meta.ctx, Matching(meta.val.items, path))

\* create_folder that takes 405 for success
create_folder_response_no_conflict(self, path, resp) ==
    IF resp.raised # "" THEN Raise(resp.ctx, resp.raised, resp.status)
    ELSE create_folder_result(path, metadata(self, release(resp.ctx), Parent(path)))

\* the response of the MKCOL: lines 412-416
create_folder_response(self, path, resp) ==
    IF resp.raised # "" THEN Raise(resp.ctx, resp.raised, resp.status)
    ELSE IF resp.status = 405 THEN Raise(release(resp.ctx), "FolderNamingConflict", 409)
    ELSE create_folder_result(path, metadata(self, release(resp.ctx), Parent(path)))

create_folder(self, path, plan, f) ==
    create_folder_response(self, path,
        make_request(NewCtx(f, plan), "MKCOL", FullParts(path), {201, 405},
                     "CreateFolderError", 0, <<>>))

\* the entry of the parent's listing: lines 461-466
_do_dav_move_copy_result(c, status, children, found) ==
    IF found = <<>> THEN Raise(c, "IndexError", 0)
    ELSE Return(c, [meta |-> found[1], children |-> children, created |-> status = 201])

\* _do_dav_move_copy that takes the first entry of the parent's listing
_do_dav_move_copy_parent_meta_first(dest_path, status, children, parent_meta) ==
    IF parent_meta.err # "" THEN parent_meta
    ELSE _do_dav_move_copy_result(parent_meta.ctx, status, children, parent_meta.val.items)

\* the listing of the destination's parent: lines 460-461
_do_dav_move_copy_parent_meta(dest_path, status, children, parent_meta) ==
    IF parent_meta.err # "" THEN parent_meta
    ELSE _do_dav_move_copy_result(parent_meta.ctx, status, children,
                                  Matching(parent_meta.val.items, dest_path))

\* the metadata of the destination: lines 458-466
_do_dav_move_copy_file_meta(self, dest_path, status, file_meta) ==
    IF file_meta.err # "" THEN file_meta
    ELSE IF dest_path.is_dir
    THEN _do_dav_move_copy_parent_meta(dest_path, status, file_meta.val.items,
             metadata(self, file_meta.ctx, Parent(dest_path)))
    ELSE Return(file_meta.ctx, [meta |-> file_meta.val.meta, children |-> <<>>,
                                created |-> status = 201])

\* the response of the MOVE/COPY: lines 456-458
_do_dav_move_copy_response(self, dest_path, resp) ==
    IF resp.raised # "" THEN Raise(resp.ctx, resp.raised, resp.status)
    ELSE _do_dav_move_copy_file_meta(self, dest_path, resp.status,
             metadata(self, release(resp.ctx), dest_path))

_do_dav_move_copy(self, src_path, dest_path, operation, plan, f) ==
    _do_dav_move_copy_response(self, dest_path,
        make_request(NewCtx(f, plan), operation, FullParts(src_path), {201, 204},
                     "IntraCopyError", 0, FullParts(dest_path)))

\* intra_copy that sends MOVE
intra_copy_as_move(self, src_path, dest_path, plan, f) ==
    _do_dav_move_copy(self, src_path, dest_path, "MOVE", plan, f)

intra_copy(self, src_path, dest_path, plan, f) ==
    _do_dav_move_copy(self, src_path, dest_path, "COPY", plan, f)

\* intra_move that sends COPY
intra_move_as_copy(self, src_path, dest_path, plan, f) ==
    _do_dav_move_copy(self, src_path, dest_path, "COPY", plan, f)

intra_move(self, src_path, dest_path, plan, f) ==
    _do_dav_move_copy(self, src_path, dest_path, "MOVE", plan, f)

----------------------------------------------------------------------------
(* Revisions and download *)

RECURSIVE RevisionChecksums(_, _, _, _, _), RevisionChecksumResponse(_, _, _, _, _)
\* the loop of _metadata_revision over the versions: the institutional
\* provider asks the checksum api for the hashes of every version
RevisionChecksums(self, c, path, revision_items, i) ==
    IF i > Len(revision_items) \/ self.NAME # "nextcloudinstitutions"
    THEN Return(c, [items |-> revision_items])
    ELSE RevisionChecksumResponse(self, path, revision_items, i,
             make_request(c, "GET", FullParts(path), {200, 404}, "MetadataError", 0, <<>>))

\* the checksum response: lines 384-389
RevisionChecksumResponse(self, path, revision_items, i, response) ==
    IF response.raised # "" THEN Raise(response.ctx, response.raised, response.status)
    ELSE RevisionChecksums(self, release(response.ctx), path,
                           IF response.status = 200
                           THEN [revision_items EXCEPT ![i].extra = "hashes"]
                           ELSE revision_items,
                           i + 1)

\* items.extend(revision_items): line 391
Extend(items, revision_items) ==
    IF revision_items.err # "" THEN revision_items
    ELSE Return(revision_items.ctx, [items |-> items \o revision_items.val.items])

\* the parsed versions listing: lines 364-391
_metadata_revision_versions_items(self, path, items, c, parsed) ==
    IF parsed.raised # "" THEN Raise(c, parsed.raised, 404)
    ELSE Extend(items, RevisionChecksums(self, release(c), path, parsed.items, 1))

\* the response of the versions PROPFIND: lines 361-365
_metadata_revision_versions_response(self, path, items, response) ==
    IF response.raised # "" THEN Raise(response.ctx, response.raised, response.status)
    ELSE IF response.status = 207
    THEN _metadata_revision_versions_items(self, path, items, response.ctx,
             parse_dav_response(response.body, self.folder, TRUE))
    ELSE Return(release(response.ctx), [items |-> items])

\* the versions PROPFIND for the file id of the only item: lines 351-359
_metadata_revision_versions(self, path, items, c) ==
    _metadata_revision_versions_response(self, path, items,
        make_request(c, "PROPFIND versions", items[1].href, {204, 207, 404},
                     "MetadataError", 0, <<>>))

\* the checksum response of the current version: lines 344-349
_metadata_revision_checksum(self, path, items, response) ==
    IF response.raised # "" THEN Raise(response.ctx, response.raised, response.status)
    ELSE _metadata_revision_versions(self, path,
             IF response.status = 200 THEN [items EXCEPT ![1].extra = "hashes"] ELSE items,
             release(response.ctx))

\* the parsed listing: lines 323-342.  When parse_dav_response raises,
\* release() is not reached.
_metadata_revision_items(self, path, c, parsed) ==
    IF parsed.raised # "" THEN Raise(c, parsed.raised, 404)
    ELSE IF Len(parsed.items) # 1 THEN Return(release(c), [items |-> parsed.items])
    ELSE IF self.NAME = "nextcloudinstitutions"
    THEN _metadata_revision_checksum(self, path, parsed.items,
             make_request(release(c), "GET", FullParts(path), {200, 404},
                          "MetadataError", 0, <<>>))
    ELSE _metadata_revision_versions(self, path, parsed.items, release(c))

\* the response: lines 320-327
_metadata_revision_response(self, path, response) ==
    IF response.raised # "" THEN Raise(response.ctx, response.raised, response.status)
    ELSE IF response.status = 207
    THEN _metadata_revision_items(self, path, response.ctx,
             parse_dav_response(response.body, self.folder, FALSE))
    ELSE Return(release(response.ctx), [items |-> <<>>])

_metadata_revision(self, c, path) ==
    _metadata_revision_response(self, path,
        make_request(c, "PROPFIND", FullParts(path), {204, 207}, "MetadataError", 0, <<>>))

\* the modification time of a metadata entry: a version carries it in its
\* name, the object itself is newer than each of its versions
Modified(m) ==
    IF m.href # <<>> /\ m.href[1].base = "v" THEN m.href[1].n ELSE MaxVersions + 1

\* NextcloudFileRevisionMetadata.from_metadata(provider, version, metadata)
from_metadata(m) == [version |-> m.href, modified |-> Modified(m), extra |-> m.extra]

\* the loop: lines 470-476
revisions_items(r) ==
    IF r.err # "" THEN r
    ELSE Return(r.ctx, [items |-> [i \in 1..Len(r.val.items) |-> from_metadata(r.val.items[i])]])

revisions(self, path, plan, f, versions) ==
    revisions_items(_metadata_revision(self, VersionsCtx(f, plan, versions), path))

NoRevision == 0

\* streams.ResponseStreamReader(download_resp): the response is handed on
download_response(download_resp) ==
    IF download_resp.raised # ""
    THEN Raise(download_resp.ctx, download_resp.raised, download_resp.status)
    ELSE Return(download_resp.ctx, [stream |-> download_resp.body.entries])

\* revisions[0].fileid and the GET of the version: lines 189-199
download_revision(revision, revs) ==
    IF revs.err # "" THEN revs
    ELSE IF revs.val.items = <<>> THEN Raise(revs.ctx, "IndexError", 0)
    ELSE download_response(
             make_request(revs.ctx, "GET version", revs.val.items[1].href, {200, 206},
                          "DownloadError", 0, <<Name("v", revision)>>))

download(self, path, revision, plan, f, versions) ==
    IF revision = NoRevision
    THEN download_response(
             make_request(VersionsCtx(f, plan, versions), "GET file", FullParts(path),
                          {200, 206}, "DownloadError", 0, <<>>))
    ELSE download_revision(revision,
             _metadata_revision(self, VersionsCtx(f, plan, versions), path))

----------------------------------------------------------------------------
(* Storage roots *)

\* BaseProvider.shares_storage_root: same backend, same settings
base_shares_storage_root(self, other) ==
    self.NAME = other.NAME /\ self.settings = other.settings

\* shares_storage_root as the base class has it
shares_storage_root_base_only(self, other) ==
    base_shares_storage_root(self, other)

shares_storage_root(self, other) ==
    base_shares_storage_root(self, other) /\ self.credentials = other.credentials

----------------------------------------------------------------------------
(* The state machine *)

\* the paths a caller holds: what validate_path returns for a path string
ValidatedPaths(self) ==
    {WaterButlerPath(s, self.folder) : s \in {t \in RawPaths : ValidRaw(t)}}
FilePaths(self) == {p \in ValidatedPaths(self) : ~p.is_dir}
FolderPaths(self) == {p \in ValidatedPaths(self) : p.is_dir /\ ~IsRoot(p)}
\* a path that carries a backend identifier on its last segment
Identified(p) == [p EXCEPT !.id = "id"]
Conflicts == {"replace", "keep"}

Finish(o, r) ==
    /\ r.err # "OutOfBound"
    /\ Cardinality({n \in r.ctx.fs : Len(n.parts) > Len(SplitNames(provider.folder))}) <= MaxNodes
    /\ pre' = fs
    /\ fs' = r.ctx.fs
    /\ op' = o
    /\ res' = [err |-> r.err, code |-> r.code, val |-> r.val]
    /\ trace' = r.ctx.trace
    /\ open' = r.ctx.open
    /\ UNCHANGED provider

\* the backend holds the provider's folder when the instance is created
Init ==
    /\ provider \in {NewProvider("nextcloud", "alice", <<Slash>>),
                      NewProvider("nextcloudinstitutions", "alice", <<Slash, "r">>)}
    /\ fs = IF SplitNames(provider.folder) = <<>> THEN {}
            ELSE {[parts |-> SplitNames(provider.folder), kind |-> "folder", size |-> 0]}
    /\ pre = fs
    /\ op = [name |-> "init"]
    /\ res = [err |-> "", code |-> 0, val |-> [none |-> TRUE]]
    /\ trace = <<>>
    /\ open = 0

\* a provider instance serves one request; the next request gets a new
\* instance of the same configuration
NewRequest ==
    /\ op.name # "init"
    /\ provider' = NewProvider(provider.NAME, provider.credentials, provider.settings)
    /\ pre' = fs
    /\ op' = [name |-> "init"]
    /\ res' = [err |-> "", code |-> 0, val |-> [none |-> TRUE]]
    /\ trace' = <<>>
    /\ open' = 0
    /\ UNCHANGED fs

ValidateV1Path ==
    /\ op.name = "init"
    /\ \E path \in RawPaths, plan \in PlansFor(1) :
        Finish([name |-> "validate_v1_path", raw |-> path],
               validate_v1_path(provider, path, plan, fs))

ValidatePath ==
    /\ op.name = "init"
    /\ \E path \in RawPaths, plan \in PlansFor(1) :
        Finish([name |-> "validate_path", raw |-> path],
               validate_path(provider, path, plan, fs))

Upload ==
    /\ op.name = "init"
    /\ \E path \in FilePaths(provider), withId \in BOOLEAN, stream \in Sizes,
       conflict \in Conflicts, plan \in Plans :
        LET p == IF withId THEN Identified(path) ELSE path
        IN Finish([name |-> "upload", path |-> p, stream |-> stream, conflict |-> conflict],
                  upload(provider, stream, p, conflict, plan, fs))

Delete ==
    /\ op.name = "init"
    /\ \E path \in ValidatedPaths(provider), plan \in PlansFor(1) :
        Finish([name |-> "delete", path |-> path], delete(provider, path, plan, fs))

Metadata ==
    /\ op.name = "init"
    /\ \E path \in ValidatedPaths(provider), plan \in Plans :
        Finish([name |-> "metadata", path |-> path],
               metadata(provider, NewCtx(fs, plan), path))

\* the question is asked in both directions when the other provider is a
\* Nextcloud provider too
SharesStorageRoot ==
    /\ op.name = "init"
    /\ \E other \in Providers \cup OtherProviders :
        Finish([name |-> "shares_storage_root", self |-> provider, other |-> other],
               Return(NewCtx(fs, NoFault),
                      [shares |-> shares_storage_root(provider, other),
                       reverse |-> IF other \in Providers
                                   THEN shares_storage_root(other, provider)
                                   ELSE base_shares_storage_root(other, provider)]))

CreateFolder ==
    /\ op.name = "init"
    /\ \E path \in FolderPaths(provider), plan \in Plans :
        Finish([name |-> "create_folder", path |-> path],
               create_folder(provider, path, plan, fs))

IntraCopy ==
    /\ op.name = "init"
    /\ \E src \in ValidatedPaths(provider), dest \in ValidatedPaths(provider), plan \in Plans :
        /\ src.is_dir = dest.is_dir
        /\ Finish([name |-> "intra_copy", path |-> src, dest |-> dest],
                  intra_copy(provider, src, dest, plan, fs))

IntraMove ==
    /\ op.name = "init"
    /\ \E src \in ValidatedPaths(provider), dest \in ValidatedPaths(provider), plan \in Plans :
        /\ src.is_dir = dest.is_dir
        /\ Finish([name |-> "intra_move", path |-> src, dest |-> dest],
                  intra_move(provider, src, dest, plan, fs))

Revisions ==
    /\ op.name = "init"
    /\ \E path \in ValidatedPaths(provider), versions \in VersionStores, plan \in Plans :
        Finish([name |-> "revisions", path |-> path, versions |-> versions],
               revisions(provider, path, plan, fs, versions))

Download ==
    /\ op.name = "init"
    /\ \E path \in ValidatedPaths(provider), versions \in VersionStores,
          revision \in {NoRevision} \cup (1..MaxVersions), plan \in Plans :
        Finish([name |-> "download", path |-> path, versions |-> versions,
                revision |-> revision],
               download(provider, path, revision, plan, fs, versions))

Next ==
    \/ NewRequest
    \/ ValidateV1Path
    \/ ValidatePath
    \/ Upload
    \/ Delete
    \/ CreateFolder
    \/ IntraCopy
    \/ IntraMove
    \/ Metadata
    \/ SharesStorageRoot

Spec == Init /\ [][Next]_vars

\* Revisions and downloads read the backend and leave it as it is: they
\* are run on backends that hold a file, a folder, both or neither below
\* the provider's folder.
StoredObjects(self) ==
    {[parts |-> SplitNames(self.folder) \o <<Name("a", 0)>>, kind |-> "file", size |-> 5],
     [parts |-> SplitNames(self.folder) \o <<Name("b", 0)>>, kind |-> "folder", size |-> 0]}

RevisionInit ==
    /\ provider \in {NewProvider("nextcloud", "alice", <<Slash>>),
                      NewProvider("nextcloudinstitutions", "alice", <<Slash, "r">>)}
    /\ \E S \in SUBSET StoredObjects(provider) :
           fs = S \cup (IF SplitNames(provider.folder) = <<>> THEN {}
                        ELSE {[parts |-> SplitNames(provider.folder), kind |-> "folder",
                               size |-> 0]})
    /\ pre = fs
    /\ op = [name |-> "init"]
    /\ res = [err |-> "", code |-> 0, val |-> [none |-> TRUE]]
    /\ trace = <<>>
    /\ open = 0

RevisionNext ==
    \/ NewRequest
    \/ Revisions
    \/ Download

RevisionSpec == RevisionInit /\ [][RevisionNext]_vars

----------------------------------------------------------------------------
(* Task failures (waterbutler/tasks/app.py).  The worker process reports   *)
(* the failure of a job to the error tracker: the handler of the           *)
(* task_failure signal writes on the tracker's scope, which lives as long  *)
(* as the worker, and captures the exception being handled.                *)

TaskIds == {"id-1", "id-2", "id-3"}
TaskNames == {"copy", "move"}
\* what a job is called with: credentials and paths
ArgValues == {"password", "token", "/secret/path"}
TaskExceptions == {"IntraCopyError", "DownloadError", "TimeoutError"}

NewScope == [tags |-> {}, captured |-> "none"]

\* scope.set_tag(key, value)
set_tag(scope, key, value) ==
    [scope EXCEPT !.tags = {t \in @ : t[1] # key} \cup {<<key, value>>}]

\* sentry_sdk.capture_exception(): the exception being handled
capture_exception(scope, exc) == [scope EXCEPT !.captured = exc]

\* a handler that also tags the report with the job's arguments
process_failure_signal_with_args(scope, sender, task_id, args, kwargs, exc) ==
    capture_exception(
        set_tag(set_tag(set_tag(scope, "task_id", task_id), "task", sender), "args", args),
        exc)

process_failure_signal(scope, sender, task_id, args, kwargs, exc) ==
    capture_exception(set_tag(set_tag(scope, "task_id", task_id), "task", sender), exc)

TaskInit ==
    /\ provider = NewProvider("nextcloud", "alice", <<Slash>>)
    /\ fs = {}
    /\ pre = {}
    /\ op = [name |-> "init"]
    /\ res = [err |-> "", code |-> 0, val |-> [scope |-> NewScope]]
    /\ trace = <<>>
    /\ open = 0

\* a job of the worker fails
TaskFailure ==
    \E sender \in TaskNames, task_id \in TaskIds, args \in ArgValues, kwargs \in ArgValues,
       exc \in TaskExceptions :
        /\ op' = [name |-> "task_failure", sender |-> sender, task_id |-> task_id,
                  args |-> args, kwargs |-> kwargs, exc |-> exc, scope |-> res.val.scope]
        /\ res' = [err |-> "", code |-> 0,
                   val |-> [scope |-> process_failure_signal(res.val.scope, sender, task_id,
                                                             args, kwargs, exc)]]
        /\ UNCHANGED <<provider, fs, pre, trace, open>>

TaskNext == TaskFailure

TaskSpec == TaskInit /\ [][TaskNext]_vars

----------------------------------------------------------------------------
(* Properties *)

\* what the last operation asked for, as the backend sees it
Requested == WaterButlerPath(op.raw, provider.folder)
ReportsAbsent(e) == e.status = 404 \/ (e.status \in {200, 207} /\ e.notfound)
ReportsListing(e) == e.status \in {200, 207} /\ ~e.notfound
Outcome(r) == [err |-> r.err, code |-> r.code, val |-> r.val]

\* C1: for a non-root path string validate_v1_path raises NotFoundError when
\* the backend reports the path absent (404 or a not-found listing) and when
\* the object exists with a kind other than the trailing-slash hint; it
\* returns the Path only when the object exists with the hinted kind.
C1_ValidateV1PathNotFound ==
    (op.name = "validate_v1_path" /\ op.raw # <<Slash>>) =>
        /\ (trace # <<>> /\ ReportsAbsent(trace[1])) => res.err = "NotFoundError"
        /\ (/\ trace # <<>>
            /\ ReportsListing(trace[1])
            /\ Exists(pre, FullParts(Requested))
            /\ NodeAt(pre, FullParts(Requested)).kind # Kind(Requested))
                => res.err = "NotFoundError"
        /\ res.err = "" =>
            /\ Exists(pre, FullParts(Requested))
            /\ NodeAt(pre, FullParts(Requested)).kind = Kind(Requested)
            /\ res.val.path = Requested

\* an existing file asked for with a trailing slash
C1_Witness ==
    /\ op.name = "validate_v1_path"
    /\ ValidRaw(op.raw)
    /\ EndsWithSlash(op.raw)
    /\ IsFileAt(pre, FullParts(Requested))
    /\ res.err = "NotFoundError"

\* C2: for a path that does not exist on the backend validate_v1_path fails
\* with NotFoundError and validate_path returns the path string prefixed
\* with the provider's folder, raising nothing.
C2_AbsentPath ==
    (/\ op.name \in {"validate_v1_path", "validate_path"}
     /\ trace # <<>>
     /\ ~Exists(pre, FullParts(Requested))
     /\ ReportsAbsent(trace[1])) =>
        IF op.name = "validate_v1_path" THEN res.err = "NotFoundError"
        ELSE /\ res.err = ""
             /\ res.val.path.parts = SplitNames(op.raw)
             /\ res.val.path.is_dir = EndsWithSlash(op.raw)
             /\ FullParts(res.val.path) = SplitNames(provider.folder) \o SplitNames(op.raw)

C2_Witness ==
    /\ op.name = "validate_path"
    /\ trace # <<>>
    /\ trace[1].status = 404
    /\ ~Exists(pre, FullParts(Requested))
    /\ Len(SplitNames(op.raw)) = 2
    /\ res.err = ""

\* the two validations of the last operation's input, answered the same way
\* by the backend as the last operation was
SameExchange(plan) ==
    IF op.name = "validate_v1_path"
    THEN validate_v1_path(provider, op.raw, plan, pre).ctx.trace = trace
    ELSE validate_path(provider, op.raw, plan, pre).ctx.trace = trace
Differ(plan) ==
    Outcome(validate_v1_path(provider, op.raw, plan, pre))
        # Outcome(validate_path(provider, op.raw, plan, pre))

\* C3 as stated: whenever validate_v1_path returns a Path validate_path
\* returns an equal one, and the two differ only where the path is absent.
C3_DifferOnlyOnAbsence ==
    (op.name \in {"validate_v1_path", "validate_path"}) =>
        \A plan \in PlansFor(1) :
            SameExchange(plan) =>
                /\ validate_v1_path(provider, op.raw, plan, pre).err = ""
                    => ~Differ(plan)
                /\ Differ(plan) => ~Exists(pre, FullParts(Requested))

\* C3 (amended): whenever validate_v1_path returns a Path validate_path
\* returns an equal one; the two differ only where the backend reports the
\* path absent or the object has a kind other than the trailing-slash hint,
\* and there validate_v1_path raises NotFoundError and validate_path returns.
C3_ValidateAgree ==
    (op.name \in {"validate_v1_path", "validate_path"}) =>
        \A plan \in PlansFor(1) :
            SameExchange(plan) =>
                /\ validate_v1_path(provider, op.raw, plan, pre).err = ""
                    => ~Differ(plan)
                /\ Differ(plan) =>
                    /\ \/ ReportsAbsent(trace[1])
                       \/ NodeAt(pre, FullParts(Requested)).kind # Kind(Requested)
                    /\ validate_v1_path(provider, op.raw, plan, pre).err = "NotFoundError"
                    /\ validate_path(provider, op.raw, plan, pre).err = ""

\* validate_v1_path returned a path below a folder of the provider's own
C3_Witness ==
    /\ op.name = "validate_v1_path"
    /\ res.err = ""
    /\ Len(SplitNames(op.raw)) = 2
    /\ validate_path(provider, op.raw, NoFault, pre).val.path = res.val.path

\* C4: for the path string '/' validate_v1_path and validate_path return the
\* root folder Path and issue no backend request, whatever the backend holds.
C4_RootWithoutRequest ==
    (op.name \in {"validate_v1_path", "validate_path"} /\ op.raw = <<Slash>>) =>
        /\ res.err = ""
        /\ trace = <<>>
        /\ IsRoot(res.val.path)
        /\ res.val.path.is_dir
        /\ FullParts(res.val.path) = SplitNames(provider.folder)

\* the root is validated while the provider's folder is gone from the backend
C4_Witness ==
    /\ op.name = "validate_v1_path"
    /\ op.raw = <<Slash>>
    /\ ~Exists(pre, SplitNames(provider.folder))
    /\ res.err = ""

\* C5: when intra_move returns, the destination holds what the source held
\* and the source is gone; when the MOVE request is answered with a status
\* other than 201/204 the operation raises and the backend is unchanged.
C5_MoveCorrect ==
    (op.name = "intra_move") =>
        /\ res.err = "" =>
            /\ Exists(pre, FullParts(op.path))
            /\ Exists(fs, FullParts(op.dest))
            /\ Subtree(fs, FullParts(op.dest))
                = {Rebase(n, FullParts(op.path), FullParts(op.dest)) :
                       n \in Subtree(pre, FullParts(op.path))}
            /\ ~Exists(fs, FullParts(op.path))
        /\ trace[1].status \notin {201, 204} =>
            /\ res.err # ""
            /\ fs = pre

\* a file moved over an existing destination
C5_Witness ==
    /\ op.name = "intra_move"
    /\ res.err = ""
    /\ IsFileAt(pre, FullParts(op.path))
    /\ Exists(pre, FullParts(op.dest))
    /\ ~Exists(fs, FullParts(op.path))

\* every request of the last operation got the backend's regular answer
Unfaulted ==
    \A i \in 1..Len(trace) :
        /\ trace[i].status # 500
        /\ ~(trace[i].status = 207 /\ trace[i].notfound)
        /\ ~(trace[i].status = 204 /\ IsPropfind(trace[i].method))

\* C6 as stated: upload under 'keep' onto an existing object writes under
\* another name and leaves the existing object as it was.
C6_KeepNeverOverwrites ==
    (/\ op.name = "upload"
     /\ op.conflict = "keep"
     /\ Exists(pre, FullParts(op.path))
     /\ res.err = "") =>
        /\ NodeAt(pre, FullParts(op.path)) \in fs
        /\ res.val.meta.href # FullParts(op.path)
        /\ IsFileAt(fs, res.val.meta.href)
        /\ NodeAt(fs, res.val.meta.href).size = op.stream

\* C7: upload under 'replace' onto a free path returns File metadata of the
\* uploaded size with created = true; onto an existing file it returns File
\* metadata of the new size with created = false; afterwards exactly one
\* object is at the path and it holds the uploaded content.
C7_ReplaceReportsCreation ==
    (op.name = "upload" /\ op.conflict = "replace") =>
        /\ res.err = "" =>
            /\ res.val.meta.kind = "file"
            /\ res.val.meta.href = FullParts(op.path)
            /\ res.val.meta.size = op.stream
            /\ res.val.created = ~Exists(pre, FullParts(op.path))
            /\ {n \in fs : n.parts = FullParts(op.path)}
                = {[parts |-> FullParts(op.path), kind |-> "file", size |-> op.stream]}
        /\ (/\ Unfaulted
            /\ ~Exists(pre, FullParts(op.path))
            /\ IsFolderAt(pre, FullParts(Parent(op.path))))
                => (res.err = "" /\ res.val.created)
        /\ (Unfaulted /\ IsFileAt(pre, FullParts(op.path)))
                => (res.err = "" /\ ~res.val.created)

\* the second upload: other content onto the file of the first
C7_Witness ==
    /\ op.name = "upload"
    /\ op.conflict = "replace"
    /\ IsFileAt(pre, FullParts(op.path))
    /\ NodeAt(pre, FullParts(op.path)).size = 10
    /\ op.stream = 5
    /\ res.err = ""
    /\ ~res.val.created
    /\ res.val.meta.size = 5

\* C8: create_folder where a folder exists raises FolderNamingConflict and
\* changes nothing; where nothing exists it creates the folder and returns
\* the entry of the parent's listing whose path is the requested path.
C8_CreateFolder ==
    (op.name = "create_folder") =>
        /\ (trace[1].status = 405 \/ (Unfaulted /\ IsFolderAt(pre, FullParts(op.path))))
            => (res.err = "FolderNamingConflict" /\ fs = pre)
        /\ (~Exists(pre, FullParts(op.path)) /\ res.err = "") =>
            /\ fs = pre \cup {[parts |-> FullParts(op.path), kind |-> "folder", size |-> 0]}
            /\ res.val.meta.kind = "folder"
            /\ MetaPath(res.val.meta) = Materialized(op.path)
            /\ \E n \in Children(fs, FullParts(Parent(op.path))) :
                   res.val.meta = MetaOf(n, provider.folder)
        /\ (/\ Unfaulted
            /\ ~Exists(pre, FullParts(op.path))
            /\ IsFolderAt(pre, FullParts(Parent(op.path))))
                => res.err = ""

\* a folder created next to another object of the parent
C8_Witness ==
    /\ op.name = "create_folder"
    /\ ~Exists(pre, FullParts(op.path))
    /\ Children(pre, FullParts(Parent(op.path))) # {}
    /\ res.err = ""
    /\ MetaPath(res.val.meta) = Materialized(op.path)

\* C9: shares_storage_root is false for two instances with different
\* credentials, also when their settings are the same; it is true only when
\* the base comparison holds and the credentials are equal; between two
\* Nextcloud providers it is symmetric.
C9_SharesStorageRoot ==
    (op.name = "shares_storage_root") =>
        /\ op.self.credentials # op.other.credentials => ~res.val.shares
        /\ res.val.shares =>
            /\ op.self.NAME = op.other.NAME
            /\ op.self.settings = op.other.settings
            /\ op.self.credentials = op.other.credentials
        /\ op.other \in Providers => res.val.shares = res.val.reverse

\* same backend, same root folder, another account
C9_Witness ==
    /\ op.name = "shares_storage_root"
    /\ op.self.NAME = op.other.NAME
    /\ op.self.settings = op.other.settings
    /\ op.self.credentials # op.other.credentials
    /\ ~res.val.shares

\* C10 as stated: no operation ends, normally or with an error, while a
\* response it obtained is unreleased.
C10_ResponsesReleased ==
    (op.name \in {"validate_v1_path", "validate_path", "upload", "delete", "metadata",
                  "create_folder", "intra_copy", "intra_move"}) => open = 0

\* the errors of the gateway's taxonomy
Taxonomy ==
    {"NotFoundError", "MetadataError", "DownloadError", "UploadError", "DeleteError",
     "CreateFolderError", "FolderNamingConflict", "IntraCopyError", "IntraMoveError"}

\* C11 as stated: metadata, download, revisions, create_folder, intra_copy
\* and intra_move return a result or raise an error of the taxonomy, for
\* every backend status and listing, an empty (204) listing included.
C11_TypedErrorsOnly ==
    (op.name \in {"metadata", "download", "revisions", "create_folder",
                  "intra_copy", "intra_move"}) =>
        res.err \in Taxonomy \cup {""}

\* C12 as stated: revisions of a file returns the current version first,
\* then the historical versions by descending modification time, one entry
\* per version, for every order in which the backend lists the versions.
C12_MostRecentFirst ==
    (/\ op.name = "revisions"
     /\ IsFileAt(pre, FullParts(op.path))
     /\ res.err = "") =>
        /\ res.val.items # <<>>
        /\ res.val.items[1].version = FullParts(op.path)
        /\ \A i, j \in 1..Len(res.val.items) :
               i < j => res.val.items[i].modified > res.val.items[j].modified

\* C13: the report of a task failure is set from the task id, the task
\* name and the exception alone: a failure of the same task with any other
\* arguments leaves the same report, the tags are exactly task_id and task,
\* and no argument value is on the report.
C13_ReportWithoutArguments ==
    (op.name = "task_failure") =>
        /\ \A args \in ArgValues, kwargs \in ArgValues :
               process_failure_signal(op.scope, op.sender, op.task_id, args, kwargs, op.exc)
                   = res.val.scope
        /\ res.val.scope.tags = {<<"task_id", op.task_id>>, <<"task", op.sender>>}
        /\ res.val.scope.captured = op.exc
        /\ \A t \in res.val.scope.tags : t[2] \notin ArgValues

\* a second failure, of another task with other arguments, on the scope the
\* first failure left
C13_Witness ==
    /\ op.name = "task_failure"
    /\ op.scope.tags # {}
    /\ <<"task_id", op.task_id>> \notin op.scope.tags
    /\ op.args # op.kwargs
    /\ res.val.scope.tags = {<<"task_id", op.task_id>>, <<"task", op.sender>>}

\* C14: after a successful intra_copy or intra_move to a folder destination
\* the returned metadata is the entry of the destination parent's listing
\* whose materialized path is the destination's, with the listing of the
\* destination folder as its children (the content of the folder when the
\* backend answers regularly, nothing when it answers 204); for a file
\* destination it is the metadata of the object at the destination.
C14_TransferMetadata ==
    (op.name \in {"intra_copy", "intra_move"} /\ res.err = "") =>
        IF op.dest.is_dir
        THEN /\ MetaPath(res.val.meta) = Materialized(op.dest)
             /\ \E n \in Children(fs, FullParts(Parent(op.dest))) :
                    res.val.meta = MetaOf(n, provider.folder)
             /\ res.val.meta.href = FullParts(op.dest)
             /\ Unfaulted =>
                    /\ Len(res.val.children) = Cardinality(Children(fs, FullParts(op.dest)))
                    /\ {res.val.children[i].href : i \in 1..Len(res.val.children)}
                           = {n.parts : n \in Children(fs, FullParts(op.dest))}
             /\ ~Unfaulted => res.val.children = <<>>
        ELSE /\ res.val.meta.href = FullParts(op.dest)
             /\ res.val.meta.kind = NodeAt(fs, FullParts(op.dest)).kind
             /\ res.val.meta.size = NodeAt(fs, FullParts(op.dest)).size
             /\ res.val.children = <<>>

\* a folder copied next to itself: the parent lists source and destination
C14_Witness ==
    /\ op.name = "intra_copy"
    /\ op.dest.is_dir
    /\ res.err = ""
    /\ Cardinality(Children(fs, FullParts(Parent(op.dest)))) = 2
    /\ MetaPath(res.val.meta) = Materialized(op.dest)

\* C15: delete returns normally only when the backend answered 204, and then
\* the object and everything under it are gone and nothing else changed;
\* for every other status, a missing path included, it raises DeleteError
\* and the backend content is unchanged.
C15_DeleteReportsFailure ==
    (op.name = "delete") =>
        /\ Len(trace) >= 1 /\ trace[1].method = "DELETE"
        /\ res.err \in {"", "DeleteError"}
        /\ res.err = "" <=> trace[1].status = 204
        /\ res.err = "" =>
            /\ Exists(pre, FullParts(op.path))
            /\ ~Exists(fs, FullParts(op.path))
            /\ fs = pre \ Subtree(pre, FullParts(op.path))
        /\ res.err = "DeleteError" => fs = pre
        /\ ~Exists(pre, FullParts(op.path)) => res.err = "DeleteError"

\* a folder deleted together with the object in it
C15_Witness ==
    /\ op.name = "delete"
    /\ res.err = ""
    /\ IsFolderAt(pre, FullParts(op.path))
    /\ Children(pre, FullParts(op.path)) # {}
    /\ Subtree(fs, FullParts(op.path)) = {}

\* the destination holds what the source holds
CopyOf(f, src_path, dest_path) ==
    Subtree(f, FullParts(dest_path))
        = {Rebase(n, FullParts(src_path), FullParts(dest_path)) :
               n \in Subtree(f, FullParts(src_path))}

\* C16: after intra_copy returned, exactly one object is at the destination,
\* it holds what the source holds, and the source is as it was; onto a free
\* destination the call reports created = true; the same intra_copy run
\* once more returns too, reports created = false and changes nothing.
C16_CopyIdempotent ==
    (op.name = "intra_copy" /\ res.err = "") =>
        /\ Cardinality({n \in fs : n.parts = FullParts(op.dest)}) = 1
        /\ CopyOf(fs, op.path, op.dest)
        /\ Subtree(fs, FullParts(op.path)) = Subtree(pre, FullParts(op.path))
        /\ res.val.created = ~Exists(pre, FullParts(op.dest))
        /\ CopyOf(pre, op.path, op.dest) => fs = pre
        /\ LET again == intra_copy(provider, op.path, op.dest, NoFault, fs)
           IN /\ again.err = ""
              /\ ~again.val.created
              /\ again.ctx.fs = fs

\* the second copy: the destination already held a copy of the source
C16_Witness ==
    /\ op.name = "intra_copy"
    /\ res.err = ""
    /\ IsFileAt(pre, FullParts(op.path))
    /\ FullParts(op.path) # FullParts(op.dest)
    /\ CopyOf(pre, op.path, op.dest)
    /\ ~res.val.created
    /\ fs = pre

\* the requests of the last operation that are PUTs
Puts == {i \in 1..Len(trace) : trace[i].method = "PUT"}

\* C17: an upload sends at most one PUT; when the PUT is answered 201 or 204
\* the next two steps are the release of its response and the PROPFIND for
\* the written path, and no result is returned without them; before the PUT
\* come only the existence checks of the name-conflict handling, and none
\* at all unless the path is identified and the conflict policy is 'keep';
\* when the PUT is answered otherwise it is the last step and the call
\* raises UploadError.
C17_UploadOrder ==
    (op.name = "upload") =>
        /\ Cardinality(Puts) <= 1
        /\ \A k \in Puts :
            /\ (op.path.id = NoId \/ op.conflict # "keep") => k = 1
            /\ \A i \in 1..(k - 1) : trace[i].method \in {"PROPFIND", "GET", ""}
            /\ trace[k].status \in {201, 204} =>
                /\ Len(trace) >= k + 2
                /\ trace[k + 1].ev = "release"
                /\ trace[k + 2].ev = "request"
                /\ trace[k + 2].method = "PROPFIND"
                /\ trace[k + 2].parts = trace[k].parts
            /\ trace[k].status \notin {201, 204} =>
                /\ Len(trace) = k
                /\ res.err = "UploadError"
        /\ res.err = "" => \E k \in Puts : trace[k].status \in {201, 204}
        /\ Puts = {} => res.err # ""

\* a PUT below a folder that does not exist is rejected
C17_Witness ==
    /\ op.name = "upload"
    /\ trace # <<>>
    /\ trace[1].method = "PUT"
    /\ trace[1].status = 409
    /\ Len(trace) = 1
    /\ res.err = "UploadError"

====
